---- MODULE Spec2Model ----
(***************************************************************************)
(* Order lifecycle of the food-ordering application: cart, order placement *)
(* (web checkout and the order API), order status writes, cancellation and *)
(* the delivery-status log.  The state is the content of the relational    *)
(* tables the handlers touch; one action is one request handler.  Money is *)
(* counted in cents (DecimalField with decimal_places=2).                  *)
(***************************************************************************)
EXTENDS Integers, Sequences, FiniteSets, TLC

(* ------------------------------ bounds -------------------------------- *)
\* Orders ever created (primary keys 1..MaxOrders are handed out once each).
MaxOrders == 2
\* Most units (sum of the quantities of its lines) one cart holds in the model.
MaxUnits == 2
\* Most delivery-status entries one order gets in the model.
MaxLog == 2
\* Stock of every item in the initial catalogue.
InitStock == 3
\* Most Feedback rows in the model.
MaxFeedbacks == 1
\* Most words of a feedback text in the model.
MaxWords == 3
\* Most frames one WebSocket client is sent, and most messages that wait on
\* one channel, in the model.
MaxFrames == 3
\* Most RiderLocation rows ever inserted in the model.
MaxSamples == 2

(* --------------------------- users and catalogue ---------------------- *)
\* models.py: User.role; root is the superuser made by create_superuser
\* (is_staff, is_superuser, role admin), bob is a rider, alice has the
\* default role.
Users == {"alice", "bob", "root"}

Role(u) == IF u = "root" THEN "admin" ELSE IF u = "bob" THEN "rider" ELSE "customer"

\* models.py: User.is_rider
is_rider(u) == Role(u) = "rider"

is_superuser(u) == u = "root"

\* views.py: is_staff(user)
is_staff(u) == u = "root"

\* models.py: User.is_admin_user
is_admin_user(u) == Role(u) = "admin" \/ is_superuser(u)

\* The users that fill carts in the model.
Shoppers == {"alice"}

\* add_sample_data.py: two of the sample food items, and the price they are
\* created with, in cents.
Items == {"burger", "cola"}

Price(i) == IF i = "burger" THEN 999 ELSE 299

\* models.py: Order.STATUS_CHOICES
STATUS_CHOICES ==
    {"pending", "confirmed", "preparing", "ready", "out_for_delivery",
     "delivered", "cancelled"}

VARIABLES
    price,             \* FoodItem.price, per FoodItem row
    stock,             \* FoodItem.stock, per FoodItem row
    cart,              \* Cart rows: cart[u] maps the items in u's cart to quantity
    orders,            \* Order rows, by primary key
    orderItems,        \* OrderItem rows
    deliveryStatuses,  \* DeliveryStatus rows: per order, oldest first
    nextOrderId,       \* next primary key of the Order table
    response,          \* the response of the last request handled
    riderLocations,    \* RiderLocation rows
    riderProfiles,     \* Rider rows: the cached position of each rider's profile
    nextLocationId,    \* next primary key of the RiderLocation table
    requests,          \* requests being handled step by step: position and locals
    feedbacks,         \* Feedback rows
    connections,       \* WebSocket connections: consumer instance and its scope
    groups,            \* channel layer: the channels of each group
    channels,          \* channel layer: messages waiting on each channel
    inbox              \* frames each WebSocket client has been sent

vars == <<price, stock, cart, orders, orderItems, deliveryStatuses, nextOrderId,
          response, riderLocations, riderProfiles, nextLocationId, feedbacks,
          requests, connections, groups, channels, inbox>>

\* The tables of the order lifecycle.
db == <<stock, cart, orders, orderItems, deliveryStatuses, nextOrderId>>

\* The channel layer and the WebSocket consumers.
relay == <<connections, groups, channels, inbox>>

\* The rider profiles and the key sequence of the location table.
riders == <<riderProfiles, nextLocationId>>

\* What the cart, order and status handlers never write.
rest == <<price, riderLocations, riders, feedbacks, requests, relay>>

(* ------------------------------ helpers ------------------------------- *)
\* Python's None: request.POST.get('status') of a POST that carries no
\* status, data.get('order_id') of a ping without one, scope['user'] of a
\* connection the auth middleware gave no user.
None == "None"

Resp(code, where) == [status |-> code, to |-> where]

EmptyCart == [i \in {} |-> 0]

\* models.py: Cart.subtotal
subtotal(u, i) == cart[u][i] * price[i]

RECURSIVE SumOver(_, _)
SumOver(S, u) ==
    IF S = {} THEN 0
    ELSE LET i == CHOOSE x \in S : TRUE
         IN  subtotal(u, i) + SumOver(S \ {i}, u)

\* sum(item.subtotal() for item in cart_items)
CartSubtotal(u) == SumOver(DOMAIN cart[u], u)

\* A Decimal with four places written to a DecimalField(decimal_places=2):
\* the value is quantized to cents, rounding half to even.  n is in 1/100 cent.
Quantize(n) ==
    LET a == IF n < 0 THEN -n ELSE n
        q == a \div 100
        r == a % 100
        up == r > 50 \/ (r = 50 /\ q % 2 = 1)
        m == IF up THEN q + 1 ELSE q
    IN  IF n < 0 THEN -m ELSE m

\* views.py: tax = subtotal * Decimal('0.10'), as stored in Order.tax.
\* s cents times 0.10 is 10*s hundredths of a cent.
TaxOf(s) == Quantize(10 * s)

\* models.py: Order.grand_total
grand_total(o) == o.total_price + o.tax + o.delivery_fee

\* Order.can_cancel with one status too many.
can_cancel_while_preparing(o) == o.status \in {"pending", "confirmed", "preparing"}

\* models.py: Order.can_cancel
can_cancel(o) == o.status \in {"pending", "confirmed"}

\* The DeliveryStatus rows of one order (order.delivery_statuses), oldest first.
LogOf(pk) == deliveryStatuses[pk]

\* The OrderItem rows of one order.
ItemsOf(pk) == {oi \in orderItems : oi.order = pk}

(* ------------------------------ channel layer -------------------------- *)
\* Channel names: one per WebSocket connection the model opens.
Conns == {"ch1", "ch2", "ch3", "ch4"}

\* A connection slot no client has used yet.
NoConnection ==
    [consumer |-> "none", state |-> "none", user |-> None, kwarg |-> None,
     room_group_name |-> None]

\* channel_layer.group_add(group, channel): groups is the set of
\* <<group, channel>> memberships.
group_add(g, c) == groups \cup {<<g, c>>}

\* channel_layer.group_discard with no effect.
group_discard_nothing(g, c) == groups

\* channel_layer.group_discard(group, channel)
group_discard(g, c) == groups \ {<<g, c>>}

\* The channels of a group.
Members(g) == {c \in Conns : <<g, c>> \in groups}

\* channel_layer.group_send(group, message): the message is put on the
\* channel of every member of the group, behind what already waits there.
group_send(ch, g, message) ==
    [c \in Conns |-> IF c \in Members(g) THEN Append(ch[c], message) ELSE ch[c]]

(* ------------------------------ initial state -------------------------- *)
\* The requests the model follows statement by statement: two workers.
Requests == {"r1", "r2"}

\* A worker between requests: pc is the statement the request is at, the
\* view the view handling it, the other fields its local variables (user, the Order object
\* and its key, the evaluated cart_items queryset with the FoodItem objects
\* it selected, the cart lines still to be looped over, and the value the
\* view is about to assign).
Idle ==
    [pc |-> "idle", view |-> None, user |-> None, pk |-> None, order |-> <<>>,
     cart_items |-> <<>>, todo |-> <<>>, change |-> None]

Init ==
    /\ price = [i \in Items |-> Price(i)]
    /\ stock = [i \in Items |-> InitStock]
    /\ cart = [u \in Users |-> EmptyCart]
    /\ orders = [pk \in {} |-> 0]
    /\ orderItems = {}
    /\ deliveryStatuses = [pk \in {} |-> <<>>]
    /\ nextOrderId = 1
    /\ response = Resp(200, "")
    /\ riderLocations = {}
    /\ riderProfiles = [u \in {v \in Users : is_rider(v)} |-> None]
    /\ nextLocationId = 1
    /\ requests = [r \in Requests |-> Idle]
    /\ feedbacks = {}
    /\ connections = [c \in Conns |-> NoConnection]
    /\ groups = {}
    /\ channels = [c \in Conns |-> <<>>]
    /\ inbox = [c \in Conns |-> <<>>]

\* Quantities a request carries in the model: int(request.POST.get('quantity', 1)).
Quantities == 1 .. MaxUnits

RECURSIVE UnitsOver(_, _)
UnitsOver(S, c) ==
    IF S = {} THEN 0
    ELSE LET i == CHOOSE x \in S : TRUE
         IN  c[i] + UnitsOver(S \ {i}, c)

\* Units in one user's cart c.
Units(c) == UnitsOver(DOMAIN c, c)

(* ------------------------------ cart views ----------------------------- *)
\* views.py: add_to_cart
add_to_cart(u, i, quantity) ==
    /\ IF i \notin DOMAIN price
       THEN \* get_object_or_404(FoodItem, pk=food_id, is_available=True)
            /\ response' = Resp(404, "")
            /\ UNCHANGED cart
       ELSE /\ IF i \notin DOMAIN cart[u]
               THEN \* get_or_create made the line, with defaults={'quantity': quantity}
                    cart' = [cart EXCEPT ![u] = (i :> quantity) @@ cart[u]]
               ELSE \* cart_item.quantity += quantity; cart_item.save()
                    cart' = [cart EXCEPT ![u][i] = @ + quantity]
            /\ Units(cart'[u]) <= MaxUnits
            /\ response' = Resp(200, "")
    /\ UNCHANGED <<stock, orders, orderItems, deliveryStatuses, nextOrderId>>
    /\ UNCHANGED rest

\* views.py: update_cart
update_cart(u, i, quantity) ==
    /\ IF i \notin DOMAIN cart[u]
       THEN \* get_object_or_404(Cart, pk=cart_id, user=request.user)
            /\ response' = Resp(404, "")
            /\ UNCHANGED cart
       ELSE /\ cart' = [cart EXCEPT ![u][i] = quantity]
            /\ Units(cart'[u]) <= MaxUnits
            /\ response' = Resp(200, "")
    /\ UNCHANGED <<stock, orders, orderItems, deliveryStatuses, nextOrderId>>
    /\ UNCHANGED rest

\* views.py: remove_from_cart
remove_from_cart(u, i) ==
    /\ IF i \notin DOMAIN cart[u]
       THEN /\ response' = Resp(404, "")
            /\ UNCHANGED cart
       ELSE /\ cart' = [cart EXCEPT ![u] = [j \in DOMAIN cart[u] \ {i} |-> cart[u][j]]]
            /\ response' = Resp(200, "")
    /\ UNCHANGED <<stock, orders, orderItems, deliveryStatuses, nextOrderId>>
    /\ UNCHANGED rest

(* ------------------------------ cart API ------------------------------- *)
\* serializers.py: CartCreateSerializer, a ModelSerializer over food_item and
\* quantity: the quantity field carries the model's MinValueValidator(1) and
\* food_item has to be the key of a FoodItem row.
CartCreateSerializer_is_valid(i, quantity) == i \in DOMAIN price /\ quantity >= 1

\* api_views.py: CartViewSet.create with perform_create.  The serializer has
\* no user field, so it does not check unique_together; a second line for the
\* same item is refused by the unique constraint of the table.
CartViewSet_create(u, i, quantity) ==
    /\ IF ~CartCreateSerializer_is_valid(i, quantity)
       THEN /\ response' = Resp(400, "")
            /\ UNCHANGED cart
       ELSE IF i \in DOMAIN cart[u]
       THEN /\ response' = Resp(500, "IntegrityError")
            /\ UNCHANGED cart
       ELSE /\ cart' = [cart EXCEPT ![u] = (i :> quantity) @@ cart[u]]
            /\ Units(cart'[u]) <= MaxUnits
            /\ response' = Resp(201, "")
    /\ UNCHANGED <<stock, orders, orderItems, deliveryStatuses, nextOrderId>>
    /\ UNCHANGED rest

\* api_views.py: CartViewSet.partial_update on the caller's line of item i,
\* sent a quantity.
CartViewSet_partial_update(u, i, quantity) ==
    /\ IF i \notin DOMAIN cart[u]
       THEN /\ response' = Resp(404, "")
            /\ UNCHANGED cart
       ELSE IF ~CartCreateSerializer_is_valid(i, quantity)
       THEN /\ response' = Resp(400, "")
            /\ UNCHANGED cart
       ELSE /\ cart' = [cart EXCEPT ![u][i] = quantity]
            /\ Units(cart'[u]) <= MaxUnits
            /\ response' = Resp(200, "")
    /\ UNCHANGED <<stock, orders, orderItems, deliveryStatuses, nextOrderId>>
    /\ UNCHANGED rest

\* api_views.py: CartViewSet.clear
clear(u) ==
    /\ cart' = [cart EXCEPT ![u] = EmptyCart]
    /\ response' = Resp(200, "Cart cleared")
    /\ UNCHANGED <<stock, orders, orderItems, deliveryStatuses, nextOrderId>>
    /\ UNCHANGED rest

(* ------------------------------ web checkout --------------------------- *)
\* The order in which the rows of cart_items are iterated.
ItemOrder == <<"burger", "cola">>

CartLines(u) == SelectSeq(ItemOrder, LAMBDA i : i \in DOMAIN cart[u])

\* checkout storing the total shown to the customer (subtotal + tax) as
\* total_price.
WebOrder_total_as_subtotal(u) ==
    [user |-> u,
     total_price |-> CartSubtotal(u) + TaxOf(CartSubtotal(u)),
     tax |-> TaxOf(CartSubtotal(u)),
     delivery_fee |-> 0,
     status |-> "pending",
     payment_status |-> "pending",
     stripe_payment_intent_id |-> ""]

\* views.py: Order.objects.create(...) in checkout; delivery_fee, status and
\* payment_status take the defaults of models.py.
WebOrder(u) ==
    [user |-> u,
     total_price |-> CartSubtotal(u),
     tax |-> TaxOf(CartSubtotal(u)),
     delivery_fee |-> 0,
     status |-> "pending",
     payment_status |-> "pending",
     stripe_payment_intent_id |-> ""]

\* views.py: OrderItem.objects.create(...) for the j-th cart line
WebOrderItem(u, pk, j) ==
    [order |-> pk,
     food_item |-> CartLines(u)[j],
     quantity |-> cart[u][CartLines(u)[j]],
     price |-> price[CartLines(u)[j]]]

\* The stock lowered by one per cart line, whatever the quantity.
ReduceStock_by_one(s, quantity) == s - 1

\* views.py: food.stock -= cart_item.quantity; food.save()
ReduceStock(s, quantity) == s - quantity

\* Number of database writes of a complete checkout: the Order, then an
\* OrderItem and a FoodItem per cart line, then the delete of the cart lines.
CheckoutWrites(u) == 2 * Len(CartLines(u)) + 2

\* The tables after the first k writes of checkout's POST branch.  Every write
\* is committed on its own: the view opens no transaction and the settings do
\* not set ATOMIC_REQUESTS.  Write 1 is the Order, write 2j the OrderItem of
\* line j, write 2j+1 the stock of line j, the last one the cart delete.
CheckoutUpTo(u, k) ==
    LET pk == nextOrderId
        n  == Len(CartLines(u))
    IN  /\ orders' = (pk :> WebOrder(u)) @@ orders
        /\ nextOrderId' = pk + 1
        /\ orderItems' = orderItems \cup
               {WebOrderItem(u, pk, j) : j \in {x \in 1 .. n : 2 * x <= k}}
        /\ stock' = [i \in DOMAIN stock |->
               IF \E j \in 1 .. n : CartLines(u)[j] = i /\ 2 * j + 1 <= k
               THEN ReduceStock(stock[i], cart[u][i])
               ELSE stock[i]]
        /\ cart' = IF k = 2 * n + 2 THEN [cart EXCEPT ![u] = EmptyCart] ELSE cart
        /\ deliveryStatuses' = (pk :> <<>>) @@ deliveryStatuses

\* views.py: checkout.  valid is FALSE for a GET and for a POST whose form
\* does not validate: both render the checkout page.
checkout(u, valid) ==
    /\ IF DOMAIN cart[u] = {}
       THEN /\ response' = Resp(302, "menu")
            /\ UNCHANGED db
       ELSE IF ~valid
       THEN /\ response' = Resp(200, "checkout")
            /\ UNCHANGED db
       ELSE /\ nextOrderId <= MaxOrders
            /\ CheckoutUpTo(u, CheckoutWrites(u))
            /\ response' = Resp(302, "order_detail")
    /\ UNCHANGED rest

(* ------------------------------ order API ------------------------------ *)
\* Every user reaching every order.
get_queryset_all_orders(u) == DOMAIN orders

\* api_views.py: OrderViewSet.get_queryset, as used by get_object: an admin
\* reaches every order, any other user only the orders they own.
get_queryset(u) ==
    IF is_admin_user(u)
    THEN DOMAIN orders
    ELSE {pk \in DOMAIN orders : orders[pk].user = u}

\* Python: Decimal.__mul__ and float.__rmul__ both return NotImplemented for
\* the other's type, so a Decimal times a float raises TypeError.
MulRaises(left, right) == {left, right} = {"Decimal", "float"}

\* api_views.py: order = serializer.save(user=..., total_price=..., tax=...,
\* delivery_fee=2.00) in perform_create.
ApiOrder(u) ==
    [user |-> u,
     total_price |-> CartSubtotal(u),
     tax |-> TaxOf(CartSubtotal(u)),
     delivery_fee |-> 200,
     status |-> "pending",
     payment_status |-> "pending",
     stripe_payment_intent_id |-> ""]

\* api_views.py: DeliveryStatus.objects.create(order=..., status=..., updated_by=u);
\* the actor, the description and the timestamp are left out of the row.
StatusEntry(pk, s, u) == [status |-> s]

\* api_views.py: OrderViewSet.create / perform_create.  valid is the outcome
\* of OrderCreateSerializer.is_valid; perform_create runs only after it.
\*  - empty cart: `serializers` is not a name of api_views.py (only classes of
\*    .serializers are imported), so the raise statement raises NameError;
\*  - otherwise total_price is a Decimal (a sum of int * Decimal) and
\*    total_price * 0.10 raises TypeError, before serializer.save.
\* Neither is an APIException: the request ends with a server error.
perform_create(u, valid) ==
    /\ UNCHANGED rest
    /\ IF ~valid
       THEN /\ response' = Resp(400, "")
            /\ UNCHANGED db
       ELSE IF DOMAIN cart[u] = {}
       THEN /\ response' = Resp(500, "NameError")
            /\ UNCHANGED db
       ELSE IF MulRaises("Decimal", "float")
       THEN /\ response' = Resp(500, "TypeError")
            /\ UNCHANGED db
       ELSE LET pk == nextOrderId
            IN  /\ nextOrderId <= MaxOrders
                /\ orders' = (pk :> ApiOrder(u)) @@ orders
                /\ nextOrderId' = pk + 1
                /\ orderItems' = orderItems \cup
                       {WebOrderItem(u, pk, j) : j \in 1 .. Len(CartLines(u))}
                /\ cart' = [cart EXCEPT ![u] = EmptyCart]
                /\ deliveryStatuses' =
                       (pk :> <<StatusEntry(pk, "pending", u)>>) @@ deliveryStatuses
                /\ response' = Resp(201, "")
                /\ UNCHANGED stock

\* api_views.py: order.status = 'cancelled'; order.save()
CancelOrder(o) == [o EXCEPT !.status = "cancelled"]

\* api_views.py: OrderViewSet.cancel
cancel(u, pk) ==
    /\ UNCHANGED rest
    /\ IF pk \notin get_queryset(u)
       THEN /\ response' = Resp(404, "")
            /\ UNCHANGED db
       ELSE IF ~can_cancel(orders[pk])
       THEN /\ response' = Resp(400, "Order cannot be cancelled")
            /\ UNCHANGED db
       ELSE /\ Len(LogOf(pk)) < MaxLog
            /\ orders' = [orders EXCEPT ![pk] = CancelOrder(@)]
            /\ deliveryStatuses' =
                   [deliveryStatuses EXCEPT ![pk] = Append(@, StatusEntry(pk, "cancelled", u))]
            /\ response' = Resp(200, "Order cancelled")
            /\ UNCHANGED <<stock, cart, orderItems, nextOrderId>>

\* api_views.py: OrderViewSet.track.  get_object answers 404 for an order
\* outside the caller's queryset; for an order inside it the first statement
\* names DeliveryStatusSerializer, which api_views.py does not import, so the
\* view raises NameError.  It writes nothing.
track(u, pk) ==
    /\ response' = IF pk \notin get_queryset(u)
                   THEN Resp(404, "")
                   ELSE Resp(500, "NameError")
    /\ UNCHANGED db
    /\ UNCHANGED rest

\* serializers.py: OrderSerializer leaves status writable (it is not among
\* read_only_fields); as a model ChoiceField it accepts exactly the choices.
\* api_views.py: OrderViewSet is a ModelViewSet, so PUT and PATCH are routed.
partial_update(u, pk, new_status) ==
    /\ UNCHANGED rest
    /\ IF pk \notin get_queryset(u)
       THEN /\ response' = Resp(404, "")
            /\ UNCHANGED db
       ELSE IF new_status \notin STATUS_CHOICES
       THEN /\ response' = Resp(400, "")
            /\ UNCHANGED db
       ELSE /\ orders' = [orders EXCEPT ![pk].status = new_status]
            /\ response' = Resp(200, "")
            /\ UNCHANGED <<stock, cart, orderItems, deliveryStatuses, nextOrderId>>

\* models.py: Order.PAYMENT_STATUS_CHOICES
PAYMENT_STATUS_CHOICES == {"pending", "paid", "failed", "refunded"}

\* PATCH on an order with a payment_status: OrderSerializer leaves
\* payment_status writable as well; as a model ChoiceField it accepts exactly
\* the choices.
partial_update_payment_status(u, pk, new_payment_status) ==
    /\ UNCHANGED rest
    /\ IF pk \notin get_queryset(u)
       THEN /\ response' = Resp(404, "")
            /\ UNCHANGED db
       ELSE IF new_payment_status \notin PAYMENT_STATUS_CHOICES
       THEN /\ response' = Resp(400, "")
            /\ UNCHANGED db
       ELSE /\ orders' = [orders EXCEPT ![pk].payment_status = new_payment_status]
            /\ response' = Resp(200, "")
            /\ UNCHANGED <<stock, cart, orderItems, deliveryStatuses, nextOrderId>>

\* PUT on an order: OrderSerializer leaves total_price writable as well, with
\* no validator but the shape of the DecimalField; the request carries the
\* required fields, of which the model keeps total_price, and a status.
update(u, pk, new_total, new_status) ==
    /\ UNCHANGED rest
    /\ IF pk \notin get_queryset(u)
       THEN /\ response' = Resp(404, "")
            /\ UNCHANGED db
       ELSE IF new_status \notin STATUS_CHOICES
       THEN /\ response' = Resp(400, "")
            /\ UNCHANGED db
       ELSE /\ orders' = [orders EXCEPT ![pk].total_price = new_total,
                                         ![pk].status = new_status]
            /\ response' = Resp(200, "")
            /\ UNCHANGED <<stock, cart, orderItems, deliveryStatuses, nextOrderId>>

\* api_views.py: OrderViewSet is a ModelViewSet, so DELETE is routed too.
\* models.py: OrderItem.order and DeliveryStatus.order are on_delete=CASCADE,
\* RiderLocation.order is on_delete=SET_NULL.
destroy(u, pk) ==
    /\ UNCHANGED <<price, riders, feedbacks, requests, relay>>
    /\ riderLocations' =
          IF pk \in get_queryset(u)
          THEN {IF row.order = ToString(pk) THEN [row EXCEPT !.order = None] ELSE row :
                  row \in riderLocations}
          ELSE riderLocations
    /\ IF pk \notin get_queryset(u)
       THEN /\ response' = Resp(404, "")
            /\ UNCHANGED db
       ELSE /\ orders' = [p \in DOMAIN orders \ {pk} |-> orders[p]]
            /\ orderItems' = {oi \in orderItems : oi.order # pk}
            /\ deliveryStatuses' = [p \in DOMAIN orders \ {pk} |-> deliveryStatuses[p]]
            /\ response' = Resp(204, "")
            /\ UNCHANGED <<stock, cart, nextOrderId>>

(* ------------------------------ admin views ---------------------------- *)
\* views.py: admin_order_detail.  post is FALSE for a GET.  The status of the
\* form is stored as sent, a choice or not: Model.save runs no validator.  A
\* POST without a status sets None, which the NOT NULL column refuses: the
\* save raises IntegrityError.
admin_order_detail(u, pk, post, new_status) ==
    /\ UNCHANGED rest
    /\ IF ~is_staff(u)
       THEN /\ response' = Resp(302, "login")
            /\ UNCHANGED db
       ELSE IF pk \notin DOMAIN orders
       THEN /\ response' = Resp(404, "")
            /\ UNCHANGED db
       ELSE IF ~post
       THEN /\ response' = Resp(200, "admin_order_detail")
            /\ UNCHANGED db
       ELSE IF new_status = None
       THEN /\ response' = Resp(500, "IntegrityError")
            /\ UNCHANGED db
       ELSE /\ orders' = [orders EXCEPT ![pk].status = new_status]
            /\ response' = Resp(302, "admin_order_detail")
            /\ UNCHANGED <<stock, cart, orderItems, deliveryStatuses, nextOrderId>>

\* views.py: admin_food_edit.  post is FALSE for a GET; valid is the outcome
\* of FoodItemForm.is_valid, which also runs the validators of the model
\* fields (price >= 0, stock >= 0).  form.save() writes the fields of the
\* form, of which the model keeps price and stock.
admin_food_edit(u, i, post, valid, new_price, new_stock) ==
    /\ IF ~is_staff(u)
       THEN /\ response' = Resp(302, "login")
            /\ UNCHANGED <<price, stock>>
       ELSE IF i \notin DOMAIN price
       THEN /\ response' = Resp(404, "")
            /\ UNCHANGED <<price, stock>>
       ELSE IF ~post \/ ~valid \/ new_price < 0 \/ new_stock < 0
       THEN /\ response' = Resp(200, "food_form")
            /\ UNCHANGED <<price, stock>>
       ELSE /\ price' = [price EXCEPT ![i] = new_price]
            /\ stock' = [stock EXCEPT ![i] = new_stock]
            /\ response' = Resp(302, "admin_food_items")
    /\ UNCHANGED <<cart, orders, orderItems, deliveryStatuses, nextOrderId>>
    /\ UNCHANGED <<riderLocations, riders, feedbacks, requests, relay>>

\* views.py: admin_food_delete.  item.delete() takes with it the rows that
\* refer to the item with on_delete=CASCADE (models.py: Cart.food_item,
\* OrderItem.food_item).
admin_food_delete(u, i, post) ==
    /\ IF ~is_staff(u)
       THEN /\ response' = Resp(302, "login")
            /\ UNCHANGED <<price, stock, cart, orderItems>>
       ELSE IF ~post
       THEN /\ response' = Resp(405, "")
            /\ UNCHANGED <<price, stock, cart, orderItems>>
       ELSE IF i \notin DOMAIN price
       THEN /\ response' = Resp(404, "")
            /\ UNCHANGED <<price, stock, cart, orderItems>>
       ELSE /\ price' = [j \in DOMAIN price \ {i} |-> price[j]]
            /\ stock' = [j \in DOMAIN stock \ {i} |-> stock[j]]
            /\ cart' = [v \in Users |-> [j \in DOMAIN cart[v] \ {i} |-> cart[v][j]]]
            /\ orderItems' = {oi \in orderItems : oi.food_item # i}
            /\ response' = Resp(302, "admin_food_items")
    /\ UNCHANGED <<orders, deliveryStatuses, nextOrderId>>
    /\ UNCHANGED <<riderLocations, riders, feedbacks, requests, relay>>

(* ------------------------------ WebSocket consumers -------------------- *)
\* An event on the channel layer or a frame sent to a client: its type and
\* the fields the model keeps, None for a field the message does not carry.
Msg(type, status, who, ts) ==
    [type |-> type, status |-> status, rider_id |-> who, timestamp |-> ts]

\* f'delivery_{order_id}'
DeliveryGroup(order_id) == "delivery_" \o order_id

\* f'rider_{rider_id}'
RiderGroup(rider_id) == "rider_" \o rider_id

\* f'notifications_{user.id}'
NotificationGroup(user) == "notifications_" \o user

\* user and user.is_authenticated: the scope carries no user, or the
\* anonymous one, unless the session is logged in.
is_authenticated(user) == user # None

\* The rider check without the comparison of the ids.
RiderAuthorized_any_user(user, rider_id) == is_authenticated(user)

\* consumers.py: the negation of the condition under which
\* RiderTrackingConsumer.connect closes the connection; a user's id is
\* modelled by the user's name.
RiderAuthorized(user, rider_id) == is_authenticated(user) /\ user = rider_id

\* self.send(...): one more frame for the client of connection c.
Send(c, frame) == [inbox EXCEPT ![c] = Append(@, frame)]

\* consumers.py: DeliveryTrackingConsumer.connect.  No check of the caller.
DeliveryTrackingConsumer_connect(c, user, order_id) ==
    /\ connections[c].state = "none"
    /\ Len(inbox[c]) < MaxFrames
    /\ connections' = [connections EXCEPT ![c] =
           [consumer |-> "delivery", state |-> "open", user |-> user,
            kwarg |-> order_id, room_group_name |-> DeliveryGroup(order_id)]]
    /\ groups' = group_add(DeliveryGroup(order_id), c)
    /\ inbox' = Send(c, Msg("connection", None, None, None))
    /\ UNCHANGED <<channels, db, response, price, riderLocations, riders, feedbacks, requests>>

\* consumers.py: RiderTrackingConsumer.connect.  room_group_name is set
\* before the check; close() before accept() refuses the connection.
RiderTrackingConsumer_connect(c, user, rider_id) ==
    /\ connections[c].state = "none"
    /\ IF ~RiderAuthorized(user, rider_id)
       THEN /\ connections' = [connections EXCEPT ![c] =
                   [consumer |-> "rider", state |-> "rejected", user |-> user,
                    kwarg |-> rider_id, room_group_name |-> RiderGroup(rider_id)]]
            /\ UNCHANGED groups
       ELSE /\ connections' = [connections EXCEPT ![c] =
                   [consumer |-> "rider", state |-> "open", user |-> user,
                    kwarg |-> rider_id, room_group_name |-> RiderGroup(rider_id)]]
            /\ groups' = group_add(RiderGroup(rider_id), c)
    /\ UNCHANGED <<channels, inbox, db, response, price, riderLocations, riders, feedbacks, requests>>

\* consumers.py: AdminTrackingConsumer.connect.  Any logged-in user passes;
\* a refused connection has no room_group_name.
AdminTrackingConsumer_connect(c, user) ==
    /\ connections[c].state = "none"
    /\ IF ~is_authenticated(user)
       THEN /\ connections' = [connections EXCEPT ![c] =
                   [consumer |-> "admin", state |-> "rejected", user |-> user,
                    kwarg |-> None, room_group_name |-> None]]
            /\ UNCHANGED groups
       ELSE /\ connections' = [connections EXCEPT ![c] =
                   [consumer |-> "admin", state |-> "open", user |-> user,
                    kwarg |-> None, room_group_name |-> "admin_tracking"]]
            /\ groups' = group_add("admin_tracking", c)
    /\ UNCHANGED <<channels, inbox, db, response, price, riderLocations, riders, feedbacks, requests>>

\* consumers.py: NotificationConsumer.connect
NotificationConsumer_connect(c, user) ==
    /\ connections[c].state = "none"
    /\ IF ~is_authenticated(user)
       THEN /\ connections' = [connections EXCEPT ![c] =
                   [consumer |-> "notification", state |-> "rejected", user |-> user,
                    kwarg |-> None, room_group_name |-> None]]
            /\ UNCHANGED groups
       ELSE /\ connections' = [connections EXCEPT ![c] =
                   [consumer |-> "notification", state |-> "open", user |-> user,
                    kwarg |-> None, room_group_name |-> NotificationGroup(user)]]
            /\ groups' = group_add(NotificationGroup(user), c)
    /\ UNCHANGED <<channels, inbox, db, response, price, riderLocations, riders, feedbacks, requests>>

\* The body the four disconnect methods share: if hasattr(self,
\* 'room_group_name'): group_discard(self.room_group_name, self.channel_name).
\* It runs when the socket closes, after an accepted connection as after a
\* refused one.
disconnect(c) ==
    /\ connections[c].state \in {"open", "rejected"}
    /\ groups' = IF connections[c].room_group_name # None
                 THEN group_discard(connections[c].room_group_name, c)
                 ELSE groups
    /\ connections' = [connections EXCEPT ![c].state = "closed"]
    /\ UNCHANGED <<channels, inbox, db, response, price, riderLocations, riders, feedbacks, requests>>

\* consumers.py: DeliveryTrackingConsumer.disconnect
DeliveryTrackingConsumer_disconnect(c) ==
    connections[c].consumer = "delivery" /\ disconnect(c)

\* consumers.py: RiderTrackingConsumer.disconnect
RiderTrackingConsumer_disconnect(c) ==
    connections[c].consumer = "rider" /\ disconnect(c)

\* consumers.py: AdminTrackingConsumer.disconnect
AdminTrackingConsumer_disconnect(c) ==
    connections[c].consumer = "admin" /\ disconnect(c)

\* consumers.py: NotificationConsumer.disconnect
NotificationConsumer_disconnect(c) ==
    connections[c].consumer = "notification" /\ disconnect(c)

\* Every channel of group g has room for one more message.
RoomIn(g) == \A m \in Members(g) : Len(channels[m]) < MaxFrames

\* consumers.py: RiderTrackingConsumer.receive of a frame of the given type
\* from the rider's client.  A location_update is sent to the delivery group
\* of its order_id, if it has one, then to the group admin_riders, then
\* acknowledged; nothing is written to the database.  Any other frame is
\* ignored.
RiderTrackingConsumer_receive(c, message_type, order_id, ts) ==
    /\ connections[c].consumer = "rider"
    /\ connections[c].state = "open"
    /\ IF message_type = "location_update"
       THEN /\ Len(inbox[c]) < MaxFrames
            /\ order_id # None => RoomIn(DeliveryGroup(order_id))
            /\ RoomIn("admin_riders")
            /\ channels' =
                  group_send(
                     IF order_id # None
                     THEN group_send(channels, DeliveryGroup(order_id),
                                     Msg("rider_location_update", None, None, ts))
                     ELSE channels,
                     "admin_riders",
                     Msg("rider_location_update", None, connections[c].kwarg, ts))
            /\ inbox' = Send(c, Msg("location_received", None, None, ts))
       ELSE UNCHANGED <<channels, inbox>>
    /\ UNCHANGED <<connections, groups, db, response, price, riderLocations, riders, feedbacks, requests>>

\* The event types a consumer class has a handler method for.
Handlers(consumer) ==
    CASE consumer = "delivery" ->
            {"delivery_update", "rider_location_update", "order_status_change"}
      [] consumer = "rider" -> {"rider_location_update"}
      [] consumer = "admin" -> {"delivery_update", "rider_location_update"}
      [] consumer = "notification" -> {"notification"}
      [] OTHER -> {}

\* consumers.py: the frame a handler method sends for an event: the handlers
\* delivery_update, rider_location_update, order_status_change and
\* notification of the four consumers.
Frame(consumer, event) ==
    CASE event.type = "delivery_update" ->
            Msg("delivery_update", event.status,
                IF consumer = "admin" THEN event.rider_id ELSE None, event.timestamp)
      [] event.type = "rider_location_update" ->
            Msg("rider_location", None,
                IF consumer = "admin" THEN event.rider_id ELSE None,
                IF consumer = "rider" THEN None ELSE event.timestamp)
      [] event.type = "order_status_change" ->
            Msg("order_status", event.status, None, None)
      [] OTHER -> Msg("notification", None, None, event.timestamp)

\* The consumer of connection c takes the next event from its channel and
\* runs the handler method named by the event's type.
dispatch(c) ==
    /\ connections[c].state = "open"
    /\ channels[c] # <<>>
    /\ Head(channels[c]).type \in Handlers(connections[c].consumer)
    /\ Len(inbox[c]) < MaxFrames
    /\ inbox' = Send(c, Frame(connections[c].consumer, Head(channels[c])))
    /\ channels' = [channels EXCEPT ![c] = Tail(@)]
    /\ UNCHANGED <<connections, groups, db, response, price, riderLocations, riders, feedbacks, requests>>

(* ------------------------------ rider location API --------------------- *)
\* The positions a location request carries: a latitude with its longitude.
Positions == {"p1", "p2"}

\* models.py: a RiderLocation row.  position stands for its latitude and
\* longitude, order for its order_id (None for NULL); timestamp defaults to
\* the time of the insert, so rows are in timestamp order when in id order.
RiderLocation(id, rider, position, order_id, ts) ==
    [id |-> id, rider |-> rider, position |-> position, order |-> order_id,
     timestamp |-> ts]

\* api_views.py: rider_profile.current_latitude = latitude;
\* rider_profile.current_longitude = longitude; rider_profile.save(), and
\* pass on Rider.DoesNotExist.
SetCurrent(profiles, u, position) ==
    IF u \in DOMAIN profiles
    THEN [profiles EXCEPT ![u] = position]
    ELSE profiles

\* api_views.py: UpdateLocationView.post.  position is None when latitude or
\* longitude is missing.  The row refers to the order of order_id: a foreign
\* key to no Order row is refused by the database.  Nothing is sent to the
\* channel layer.
UpdateLocationView_post(u, position, order_id, ts) ==
    /\ IF ~is_rider(u)
       THEN /\ response' = Resp(403, "Only riders can update location")
            /\ UNCHANGED <<riderLocations, riders>>
       ELSE IF position = None
       THEN /\ response' = Resp(400, "Latitude and longitude required")
            /\ UNCHANGED <<riderLocations, riders>>
       ELSE IF order_id # None /\ ~\E pk \in DOMAIN orders : ToString(pk) = order_id
       THEN /\ response' = Resp(500, "IntegrityError")
            /\ UNCHANGED <<riderLocations, riders>>
       ELSE /\ nextLocationId <= MaxSamples
            /\ riderLocations' = riderLocations \cup
                   {RiderLocation(nextLocationId, u, position, order_id, ts)}
            /\ nextLocationId' = nextLocationId + 1
            /\ riderProfiles' = SetCurrent(riderProfiles, u, position)
            /\ response' = Resp(201, "")
    /\ UNCHANGED <<db, price, feedbacks, requests, relay>>

\* api_views.py: RiderLocationViewSet.get_queryset: a rider reaches their
\* own rows, an admin every row, any other user none.
RiderLocationViewSet_get_queryset(u) ==
    IF is_rider(u) THEN {row \in riderLocations : row.rider = u}
    ELSE IF is_admin_user(u) THEN riderLocations
    ELSE {}

\* api_views.py: RiderLocationViewSet.create with perform_create, for any
\* authenticated user.  RiderLocationSerializer requires latitude and
\* longitude and an order that exists, if one is given; save(rider=...)
\* stores the caller as the rider.  The rider's profile is not touched.
\* api_urls.py registers no route for this viewset.
RiderLocationViewSet_create(u, position, order_id, ts) ==
    /\ IF \/ position = None
          \/ order_id # None /\ ~\E pk \in DOMAIN orders : ToString(pk) = order_id
       THEN /\ response' = Resp(400, "")
            /\ UNCHANGED <<riderLocations, nextLocationId>>
       ELSE /\ nextLocationId <= MaxSamples
            /\ riderLocations' = riderLocations \cup
                   {RiderLocation(nextLocationId, u, position, order_id, ts)}
            /\ nextLocationId' = nextLocationId + 1
            /\ response' = Resp(201, "")
    /\ UNCHANGED <<db, price, feedbacks, requests, relay, riderProfiles>>

\* api_views.py: RiderLocationViewSet is a ModelViewSet, so PATCH is among
\* its actions: it stores the latitude and longitude sent on the row with
\* the given id, if the caller's queryset has it.
RiderLocationViewSet_partial_update(u, id, position) ==
    /\ IF ~\E row \in RiderLocationViewSet_get_queryset(u) : row.id = id
       THEN /\ response' = Resp(404, "")
            /\ UNCHANGED riderLocations
       ELSE IF position = None
       THEN /\ response' = Resp(400, "")
            /\ UNCHANGED riderLocations
       ELSE /\ riderLocations' =
                   {IF row.id = id THEN [row EXCEPT !.position = position] ELSE row :
                      row \in riderLocations}
            /\ response' = Resp(200, "")
    /\ UNCHANGED <<db, price, feedbacks, requests, relay, riders>>

\* api_views.py: RiderLocationViewSet is a ModelViewSet, so DELETE is among
\* its actions.
RiderLocationViewSet_destroy(u, id) ==
    /\ IF ~\E row \in RiderLocationViewSet_get_queryset(u) : row.id = id
       THEN /\ response' = Resp(404, "")
            /\ UNCHANGED riderLocations
       ELSE /\ riderLocations' = {row \in riderLocations : row.id # id}
            /\ response' = Resp(204, "")
    /\ UNCHANGED <<db, price, feedbacks, requests, relay, riders>>

(* ------------------------------ feedback -------------------------------- *)
\* A text is the sequence of its characters.
\* models.py: positive_words in Feedback.save
positive_words ==
    <<<<"g", "r", "e", "a", "t">>,
      <<"e", "x", "c", "e", "l", "l", "e", "n", "t">>,
      <<"a", "m", "a", "z", "i", "n", "g">>,
      <<"l", "o", "v", "e">>,
      <<"f", "a", "n", "t", "a", "s", "t", "i", "c">>,
      <<"d", "e", "l", "i", "c", "i", "o", "u", "s">>,
      <<"p", "e", "r", "f", "e", "c", "t">>,
      <<"a", "w", "e", "s", "o", "m", "e">>,
      <<"g", "o", "o", "d">>,
      <<"b", "e", "s", "t">>,
      <<"w", "o", "n", "d", "e", "r", "f", "u", "l">>>>

\* models.py: negative_words in Feedback.save
negative_words ==
    <<<<"b", "a", "d">>,
      <<"t", "e", "r", "r", "i", "b", "l", "e">>,
      <<"a", "w", "f", "u", "l">>,
      <<"h", "o", "r", "r", "i", "b", "l", "e">>,
      <<"w", "o", "r", "s", "t">>,
      <<"d", "i", "s", "g", "u", "s", "t", "i", "n", "g">>,
      <<"s", "l", "o", "w">>,
      <<"c", "o", "l", "d">>,
      <<"r", "u", "d", "e">>,
      <<"d", "i", "s", "a", "p", "p", "o", "i", "n", "t", "e", "d">>>>

UpperCase == <<"A", "B", "C", "D", "E", "F", "G", "H", "I", "J", "K", "L", "M", "N", "O", "P", "Q", "R", "S", "T", "U", "V", "W", "X", "Y", "Z">>

LowerCase == <<"a", "b", "c", "d", "e", "f", "g", "h", "i", "j", "k", "l", "m", "n", "o", "p", "q", "r", "s", "t", "u", "v", "w", "x", "y", "z">>

\* str.lower() on one character: the letters A to Z change, nothing else.
lower_char(ch) ==
    IF \E k \in 1 .. Len(UpperCase) : UpperCase[k] = ch
    THEN LowerCase[CHOOSE k \in 1 .. Len(UpperCase) : UpperCase[k] = ch]
    ELSE ch

\* self.feedback_text.lower()
lower(text) == [k \in 1 .. Len(text) |-> lower_char(text[k])]

\* Python: word in text, for strings: word occurs in text as a substring.
Contains(word, text) ==
    \E k \in 0 .. (Len(text) - Len(word)) : SubSeq(text, k + 1, k + Len(word)) = word

\* sum(1 for word in words if word in text)
CountIn(words, text) == Cardinality({k \in 1 .. Len(words) : Contains(words[k], text)})

\* The comparison of the counts with a tie counted as positive.
Classify_ties_positive(positive_count, negative_count) ==
    IF positive_count >= negative_count THEN "positive" ELSE "negative"

\* models.py: the if / elif / else of Feedback.save
Classify(positive_count, negative_count) ==
    IF positive_count > negative_count THEN "positive"
    ELSE IF negative_count > positive_count THEN "negative"
    ELSE "neutral"

\* models.py: Feedback.save: the row as it is stored.
Feedback_save(row) ==
    [row EXCEPT !.sentiment =
        Classify(CountIn(positive_words, lower(row.feedback_text)),
                 CountIn(negative_words, lower(row.feedback_text)))]

\* views.py: feedback.  post is FALSE for a GET.  The row is created with the
\* default sentiment and saved.
feedback(u, post, feedback_text) ==
    /\ IF ~post
       THEN /\ response' = Resp(200, "feedback")
            /\ UNCHANGED feedbacks
       ELSE /\ Cardinality(feedbacks) < MaxFeedbacks
            /\ feedbacks' = feedbacks \cup
                  {Feedback_save([user |-> u, feedback_text |-> feedback_text,
                                  sentiment |-> "neutral"])}
            /\ response' = Resp(302, "feedback")
    /\ UNCHANGED <<db, price, riderLocations, riders, requests, relay>>

\* api_views.py: FeedbackViewSet.get_queryset
FeedbackViewSet_get_queryset(u) ==
    IF is_admin_user(u) THEN feedbacks ELSE {f \in feedbacks : f.user = u}

\* api_views.py: FeedbackViewSet, a ModelViewSet: PUT or PATCH of a feedback
\* with a new text.  serializers.py: sentiment is read-only in
\* FeedbackSerializer; the save of the instance computes it again.
FeedbackViewSet_update(u, row, feedback_text) ==
    /\ row \in FeedbackViewSet_get_queryset(u)
    /\ feedbacks' = (feedbacks \ {row}) \cup
          {Feedback_save([row EXCEPT !.feedback_text = feedback_text])}
    /\ response' = Resp(200, "")
    /\ UNCHANGED <<db, price, riderLocations, riders, requests, relay>>

(* ------------------------------ payment webhook ------------------------ *)
\* stripe.Webhook.construct_event with the signature left unverified.
construct_event_unverified(payload_ok, sig_ok) ==
    IF ~payload_ok THEN "ValueError" ELSE "event"

\* stripe.Webhook.construct_event(payload, sig_header, secret): the signature
\* of the header is verified against the payload first (a missing or garbled
\* header fails the verification), then the payload is parsed.
construct_event(payload_ok, sig_ok) ==
    IF ~sig_ok THEN "SignatureVerificationError"
    ELSE IF ~payload_ok THEN "ValueError"
    ELSE "event"

\* The webhook marking the order as paid and as confirmed.
MarkPaid_and_confirm(o) == [o EXCEPT !.payment_status = "paid", !.status = "confirmed"]

\* api_views.py: order.payment_status = 'paid'; order.save()
MarkPaid(o) == [o EXCEPT !.payment_status = "paid"]

\* The order ids a lookup by id accepts: the strings of integers.
NumericIds == {ToString(n) : n \in 0 .. MaxOrders}

\* api_views.py: StripeWebhookView.post.  order_id is the value of the
\* metadata of the event, None when the metadata has none.  An id that is no
\* number makes Order.objects.get raise ValueError, which is not caught.
StripeWebhookView_post(payload_ok, sig_ok, type, order_id) ==
    /\ IF construct_event(payload_ok, sig_ok) = "ValueError"
       THEN /\ response' = Resp(400, "Invalid payload")
            /\ UNCHANGED orders
       ELSE IF construct_event(payload_ok, sig_ok) = "SignatureVerificationError"
       THEN /\ response' = Resp(400, "Invalid signature")
            /\ UNCHANGED orders
       ELSE IF type # "payment_intent.succeeded" \/ order_id = None
       THEN /\ response' = Resp(200, "success")
            /\ UNCHANGED orders
       ELSE IF order_id \notin NumericIds
       THEN /\ response' = Resp(500, "ValueError")
            /\ UNCHANGED orders
       ELSE /\ orders' = [pk \in DOMAIN orders |->
                   IF ToString(pk) = order_id THEN MarkPaid(orders[pk]) ELSE orders[pk]]
            /\ response' = Resp(200, "success")
    /\ UNCHANGED <<stock, cart, orderItems, deliveryStatuses, nextOrderId>>
    /\ UNCHANGED rest

\* The ids Stripe gives the payment intents it creates, in the model.
PaymentIntentIds == {"pi_1"}

\* api_views.py: order.stripe_payment_intent_id = payment_intent.id
SetIntent(o, intent) == [o EXCEPT !.stripe_payment_intent_id = intent]

\* api_views.py: CreatePaymentIntentView.post.  order_id is the order_id of
\* the request data, None when absent; intent is the id of the intent Stripe
\* creates, or "StripeError" when stripe.PaymentIntent.create raises.
CreatePaymentIntentView_post(u, order_id, intent) ==
    /\ IF order_id # None /\ order_id \notin NumericIds
       THEN /\ response' = Resp(500, "ValueError")
            /\ UNCHANGED orders
       ELSE IF ~\E pk \in DOMAIN orders : ToString(pk) = order_id /\ orders[pk].user = u
       THEN /\ response' = Resp(404, "Order not found")
            /\ UNCHANGED orders
       ELSE IF intent = "StripeError"
       THEN /\ response' = Resp(400, "StripeError")
            /\ UNCHANGED orders
       ELSE /\ orders' = [pk \in DOMAIN orders |->
                   IF ToString(pk) = order_id THEN SetIntent(orders[pk], intent) ELSE orders[pk]]
            /\ response' = Resp(200, "client_secret")
    /\ UNCHANGED <<stock, cart, orderItems, deliveryStatuses, nextOrderId>>
    /\ UNCHANGED rest

(* ------------------- requests handled statement by statement ---------- *)
\* The views below are the views above, one database statement per step:
\* no view opens a transaction or locks a row, so the statements of two
\* requests interleave freely.

\* views.py: checkout, line 133-137: `if not cart_items` evaluates the
\* queryset; the rows, with the FoodItem row each one selects, stay cached in
\* cart_items for the rest of the request.
checkout_begin(r, u) ==
    /\ requests[r].pc = "idle"
    /\ IF DOMAIN cart[u] = {}
       THEN /\ response' = Resp(302, "menu")
            /\ UNCHANGED requests
       ELSE /\ requests' = [requests EXCEPT ![r] =
                   [Idle EXCEPT !.pc = "create_order",
                                !.view = "checkout",
                                !.user = u,
                                !.cart_items = [i \in DOMAIN cart[u] |->
                                    [quantity |-> cart[u][i],
                                     stock |-> stock[i],
                                     price |-> price[i]]],
                                !.todo = CartLines(u)]]
            /\ UNCHANGED response
    /\ UNCHANGED <<db, price, riderLocations, riders, feedbacks, relay>>

\* sum(item.subtotal() for item in cart_items), over the cached rows
RECURSIVE SnapshotSubtotal(_, _)
SnapshotSubtotal(cart_items, S) ==
    IF S = {} THEN 0
    ELSE LET i == CHOOSE x \in S : TRUE
         IN  cart_items[i].quantity * cart_items[i].price
               + SnapshotSubtotal(cart_items, S \ {i})

\* views.py: checkout, line 146-153: Order.objects.create(...) with the
\* totals of the cached rows.
checkout_create_order(r) ==
    LET req == requests[r]
        total == SnapshotSubtotal(req.cart_items, DOMAIN req.cart_items)
    IN  /\ req.pc = "create_order"
        /\ nextOrderId <= MaxOrders
        /\ orders' = (nextOrderId :>
                        [WebOrder(req.user) EXCEPT !.total_price = total,
                                                   !.tax = TaxOf(total)]) @@ orders
        /\ deliveryStatuses' = (nextOrderId :> <<>>) @@ deliveryStatuses
        /\ nextOrderId' = nextOrderId + 1
        /\ requests' = [requests EXCEPT ![r].pc = "order_items", ![r].pk = nextOrderId]
        /\ UNCHANGED <<stock, cart, orderItems, response>>
        /\ UNCHANGED <<price, riderLocations, riders, feedbacks, relay>>

\* views.py: checkout, line 155-166, one turn of the loop: the OrderItem of
\* the next cached row, then food.stock -= cart_item.quantity; food.save()
\* on the FoodItem object cached with the row: save() writes every column of
\* the object, the stock computed from the stock read at line 135.
checkout_order_item(r) ==
    LET req == requests[r]
        i == Head(req.todo)
        cart_item == req.cart_items[i]
    IN  /\ req.pc = "order_items"
        /\ req.todo # <<>>
        /\ orderItems' = orderItems \cup
               {[order |-> req.pk, food_item |-> i,
                 quantity |-> cart_item.quantity, price |-> cart_item.price]}
        /\ stock' = [stock EXCEPT ![i] = ReduceStock(cart_item.stock, cart_item.quantity)]
        /\ price' = [price EXCEPT ![i] = cart_item.price]
        /\ requests' = [requests EXCEPT ![r].todo = Tail(req.todo)]
        /\ UNCHANGED <<cart, orders, deliveryStatuses, nextOrderId, response>>
        /\ UNCHANGED <<riderLocations, riders, feedbacks, relay>>

\* views.py: checkout, line 168-171: cart_items.delete() deletes the rows
\* the filter matches now, then the redirect.
checkout_delete_cart(r) ==
    LET req == requests[r]
    IN  /\ req.pc = "order_items"
        /\ req.todo = <<>>
        /\ cart' = [cart EXCEPT ![req.user] = EmptyCart]
        /\ response' = Resp(302, "order_detail")
        /\ requests' = [requests EXCEPT ![r] = Idle]
        /\ UNCHANGED <<stock, orders, orderItems, deliveryStatuses, nextOrderId>>
        /\ UNCHANGED <<price, riderLocations, riders, feedbacks, relay>>

\* A view at the statement that loaded its Order object: the object is the
\* row as it was then.
Loaded(view, u, pk, change) ==
    [Idle EXCEPT !.pc = "save", !.view = view, !.user = u, !.pk = pk, !.order = orders[pk],
                 !.change = change]

\* order.save(): Model.save() without update_fields writes every column of
\* the object over the row.
SaveOrder(pk, order) == [orders EXCEPT ![pk] = order]

\* api_views.py: StripeWebhookView.post, line 525-531, for a verified
\* payment_intent.succeeded event with the id of an order:
\* order = Order.objects.get(id=order_id)
StripeWebhookView_get(r, pk) ==
    /\ requests[r].pc = "idle"
    /\ pk \in DOMAIN orders
    /\ requests' = [requests EXCEPT ![r] = Loaded("StripeWebhookView", None, pk, "paid")]
    /\ UNCHANGED <<db, response, price, riderLocations, riders, feedbacks, relay>>

\* api_views.py: StripeWebhookView.post, line 532-537:
\* order.payment_status = 'paid'; order.save()
StripeWebhookView_save(r) ==
    LET req == requests[r]
    IN  /\ req.pc = "save"
        /\ req.view = "StripeWebhookView"
        /\ req.pk \in DOMAIN orders
        /\ orders' = SaveOrder(req.pk, MarkPaid(req.order))
        /\ response' = Resp(200, "success")
        /\ requests' = [requests EXCEPT ![r] = Idle]
        /\ UNCHANGED <<stock, cart, orderItems, deliveryStatuses, nextOrderId>>
        /\ UNCHANGED <<price, riderLocations, riders, feedbacks, relay>>

\* api_views.py: OrderViewSet.cancel, line 311: order = self.get_object()
cancel_get(r, u, pk) ==
    /\ requests[r].pc = "idle"
    /\ pk \in get_queryset(u)
    /\ requests' = [requests EXCEPT ![r] = Loaded("cancel", u, pk, "cancelled")]
    /\ UNCHANGED <<db, response, price, riderLocations, riders, feedbacks, relay>>

\* api_views.py: OrderViewSet.cancel, line 312-328: the can_cancel test on
\* the object, order.save() and the log entry.
cancel_save(r) ==
    LET req == requests[r]
    IN  /\ req.pc = "save"
        /\ req.view = "cancel"
        /\ req.pk \in DOMAIN orders
        /\ IF ~can_cancel(req.order)
           THEN /\ response' = Resp(400, "Order cannot be cancelled")
                /\ UNCHANGED <<orders, deliveryStatuses>>
           ELSE /\ Len(LogOf(req.pk)) < MaxLog
                /\ orders' = SaveOrder(req.pk, CancelOrder(req.order))
                /\ deliveryStatuses' =
                       [deliveryStatuses EXCEPT
                          ![req.pk] = Append(@, StatusEntry(req.pk, "cancelled", req.user))]
                /\ response' = Resp(200, "Order cancelled")
        /\ requests' = [requests EXCEPT ![r] = Idle]
        /\ UNCHANGED <<stock, cart, orderItems, nextOrderId>>
        /\ UNCHANGED <<price, riderLocations, riders, feedbacks, relay>>

\* views.py: admin_order_detail, line 371: order = get_object_or_404(...)
\* for a POST of a staff user with a status.
admin_order_detail_get(r, u, pk, new_status) ==
    /\ requests[r].pc = "idle"
    /\ is_staff(u)
    /\ pk \in DOMAIN orders
    /\ new_status \in STATUS_CHOICES
    /\ requests' = [requests EXCEPT ![r] = Loaded("admin_order_detail", u, pk, new_status)]
    /\ UNCHANGED <<db, response, price, riderLocations, riders, feedbacks, relay>>

\* views.py: admin_order_detail, line 373-378: order.status = new_status;
\* order.save()
admin_order_detail_save(r) ==
    LET req == requests[r]
    IN  /\ req.pc = "save"
        /\ req.view = "admin_order_detail"
        /\ req.pk \in DOMAIN orders
        /\ orders' = SaveOrder(req.pk, [req.order EXCEPT !.status = req.change])
        /\ response' = Resp(302, "admin_order_detail")
        /\ requests' = [requests EXCEPT ![r] = Idle]
        /\ UNCHANGED <<stock, cart, orderItems, deliveryStatuses, nextOrderId>>
        /\ UNCHANGED <<price, riderLocations, riders, feedbacks, relay>>

\* api_views.py: CreatePaymentIntentView.post, line 476:
\* order = Order.objects.get(id=order_id, user=request.user)
CreatePaymentIntentView_get(r, u, pk, intent) ==
    /\ requests[r].pc = "idle"
    /\ pk \in DOMAIN orders
    /\ orders[pk].user = u
    /\ intent \in PaymentIntentIds
    /\ requests' = [requests EXCEPT ![r] = Loaded("CreatePaymentIntentView", u, pk, intent)]
    /\ UNCHANGED <<db, response, price, riderLocations, riders, feedbacks, relay>>

\* api_views.py: CreatePaymentIntentView.post, line 486-498: the intent is
\* created, then order.stripe_payment_intent_id = payment_intent.id;
\* order.save()
CreatePaymentIntentView_save(r) ==
    LET req == requests[r]
    IN  /\ req.pc = "save"
        /\ req.view = "CreatePaymentIntentView"
        /\ req.pk \in DOMAIN orders
        /\ orders' = SaveOrder(req.pk, SetIntent(req.order, req.change))
        /\ response' = Resp(200, "client_secret")
        /\ requests' = [requests EXCEPT ![r] = Idle]
        /\ UNCHANGED <<stock, cart, orderItems, deliveryStatuses, nextOrderId>>
        /\ UNCHANGED <<price, riderLocations, riders, feedbacks, relay>>

(* ------------------------------ specification -------------------------- *)
OrderIds == 1 .. MaxOrders

\* One step: any request handler, on any input.  CartItems and CartQuantities
\* are the items and quantities the cart views are sent, NewStatuses the
\* status choices a status write is sent.
NextWith(CartItems, CartQuantities, NewStatuses) ==
    \/ \E u \in Shoppers, i \in CartItems, q \in CartQuantities : add_to_cart(u, i, q)
    \/ \E u \in Shoppers, i \in CartItems, q \in CartQuantities : update_cart(u, i, q)
    \/ \E u \in Shoppers, i \in CartItems : remove_from_cart(u, i)
    \/ \E u \in Shoppers, valid \in BOOLEAN : checkout(u, valid)
    \/ \E u \in Shoppers, valid \in BOOLEAN : perform_create(u, valid)
    \/ \E u \in Users, pk \in OrderIds : cancel(u, pk)
    \/ \E u \in Users, pk \in OrderIds, s \in NewStatuses \cup {"bogus"} :
            pk \in get_queryset(u) /\ partial_update(u, pk, s)
    \/ \E u \in Users, pk \in OrderIds :
            pk \notin get_queryset(u) /\ partial_update(u, pk, "pending")
    \/ \E u \in Users, pk \in OrderIds : destroy(u, pk)
    \/ \E u \in Users, pk \in OrderIds : admin_order_detail(u, pk, FALSE, "pending")
    \/ \E u \in Users, pk \in OrderIds, s \in NewStatuses \cup {"bogus", None} :
            is_staff(u) /\ admin_order_detail(u, pk, TRUE, s)
    \/ \E u \in Users, pk \in OrderIds :
            ~is_staff(u) /\ admin_order_detail(u, pk, TRUE, "pending")

\* Every cart, few statuses: the specification of the claims about carts and
\* order placement.
Next == NextWith(Items, Quantities, {"preparing"})

Spec == Init /\ [][Next]_vars

\* Every status, few carts: the specification of the claims about the order
\* status and the delivery-status log.
NextStatus == NextWith({"burger"}, {1}, STATUS_CHOICES)

SpecStatus == Init /\ [][NextStatus]_vars

\* Prices the admin food form is sent.
NewPrices == {1099}

\* The catalogue under edit: carts, placement, the status writers, the order
\* API update and the admin food views.
NextCatalog ==
    \/ add_to_cart("alice", "burger", 1)
    \/ remove_from_cart("alice", "burger")
    \/ \E valid \in BOOLEAN : checkout("alice", valid)
    \/ \E pk \in OrderIds : cancel("alice", pk)
    \/ \E pk \in OrderIds : admin_order_detail("root", pk, TRUE, "confirmed")
    \/ \E u \in {"alice", "bob"}, pk \in OrderIds : update(u, pk, 0, "pending")
    \/ \E pk \in OrderIds : update("alice", pk, 0, "bogus")
    \/ \E u \in {"root", "bob"}, post \in BOOLEAN, p \in NewPrices :
            admin_food_edit(u, "burger", post, TRUE, p, InitStock)
    \/ admin_food_edit("root", "burger", TRUE, FALSE, -1, InitStock)
    \/ \E u \in {"root", "bob"}, post \in BOOLEAN : admin_food_delete(u, "burger", post)

SpecCatalog == Init /\ [][NextCatalog]_vars

\* The timestamps location pings carry.
Timestamps == {"t1", "t2"}

\* The relay: one connection per consumer class (the rider's ch1, an order
\* page's ch2, the admin dashboard's ch3, a notification socket's ch4), the
\* rider's pings over the socket and over the location API.
NextRelay ==
    \/ \E user \in {None, "alice"} : DeliveryTrackingConsumer_connect("ch2", user, "1")
    \/ \E user \in {None, "bob", "root"} : RiderTrackingConsumer_connect("ch1", user, "bob")
    \/ \E user \in {None, "root"} : AdminTrackingConsumer_connect("ch3", user)
    \/ \E user \in {None, "alice"} : NotificationConsumer_connect("ch4", user)
    \/ \E c \in Conns : DeliveryTrackingConsumer_disconnect(c)
    \/ \E c \in Conns : RiderTrackingConsumer_disconnect(c)
    \/ \E c \in Conns : AdminTrackingConsumer_disconnect(c)
    \/ \E c \in Conns : NotificationConsumer_disconnect(c)
    \/ \E c \in Conns, ts \in Timestamps :
            RiderTrackingConsumer_receive(c, "location_update", "1", ts)
    \/ \E c \in Conns : RiderTrackingConsumer_receive(c, "ping", None, "t1")
    \/ \E c \in Conns : dispatch(c)
    \/ \E u \in {"alice", "bob"}, position \in {None, "p1"}, order_id \in {None, "1"} :
            UpdateLocationView_post(u, position, order_id, "t1")

SpecRelay == Init /\ [][NextRelay]_vars

\* Orders and their observers: placement, the customer's cancel, the admin's
\* status form, an order page subscribed to order 1, and a rider whose pings
\* are publishes on this and on other topics.
NextNotify ==
    \/ add_to_cart("alice", "burger", 1)
    \/ checkout("alice", TRUE)
    \/ \E pk \in OrderIds : cancel("alice", pk)
    \/ \E pk \in OrderIds, s \in {"confirmed", "preparing"} :
            admin_order_detail("root", pk, TRUE, s)
    \/ DeliveryTrackingConsumer_connect("ch2", "alice", "1")
    \/ DeliveryTrackingConsumer_disconnect("ch2")
    \/ RiderTrackingConsumer_connect("ch1", "bob", "bob")
    \/ \E order_id \in {None, "1", "2"} :
            RiderTrackingConsumer_receive("ch1", "location_update", order_id, "t1")
    \/ \E c \in Conns : dispatch(c)

SpecNotify == Init /\ [][NextNotify]_vars

\* The words feedback texts are made of in the model: keywords of both lists
\* in lower, mixed and upper case, a word that is no keyword, and a word
\* that contains a keyword.
Vocabulary ==
    {<<"g", "r", "e", "a", "t">>,
     <<"A", "m", "a", "z", "i", "n", "g">>,
     <<"t", "e", "r", "r", "i", "b", "l", "e">>,
     <<"A", "W", "F", "U", "L">>,
     <<"o", "k">>,
     <<"g", "o", "o", "d", "b", "y", "e">>}

RECURSIVE TextsOf(_)
\* The texts of n words of the vocabulary, a blank between two words.
TextsOf(n) ==
    IF n = 1 THEN Vocabulary
    ELSE {t \o <<" ">> \o w : t \in TextsOf(n - 1), w \in Vocabulary}

FeedbackTexts == UNION {TextsOf(n) : n \in 1 .. MaxWords}

\* Feedback: the feedback page and the feedback API, on every text.
NextFeedback ==
    \/ \E text \in FeedbackTexts : feedback("alice", TRUE, text)
    \/ feedback("alice", FALSE, <<>>)
    \/ \E u \in {"alice", "root"}, row \in feedbacks, text \in TextsOf(1) :
            FeedbackViewSet_update(u, row, text)

SpecFeedback == Init /\ [][NextFeedback]_vars

\* The event types the webhook is sent.
EventTypes == {"payment_intent.succeeded", "payment_intent.payment_failed"}

\* The order ids the metadata of an event carries in the model: none, the
\* ids of the orders, and a string that is no number.
MetadataOrderIds == {None, "abc"} \cup {ToString(pk) : pk \in OrderIds}

\* Payment: placement, the customer's cancel, and the webhook on every
\* payload.
NextPayment ==
    \/ \E q \in Quantities : add_to_cart("alice", "burger", q)
    \/ checkout("alice", TRUE)
    \/ \E pk \in OrderIds : cancel("alice", pk)
    \/ \E payload_ok \in BOOLEAN, sig_ok \in BOOLEAN, type \in EventTypes,
          order_id \in MetadataOrderIds :
            StripeWebhookView_post(payload_ok, sig_ok, type, order_id)

SpecPayment == Init /\ [][NextPayment]_vars

\* Quantities a cart request can carry: int() accepts zero and negative
\* numbers as well.
AnyQuantities == -1 .. MaxUnits

\* No line of the cart of u is below -MaxUnits after the step: keeps the
\* quantities of the model in a finite range.
CartBoundedBelow(u) == \A i \in DOMAIN cart'[u] : cart'[u][i] >= -MaxUnits

\* The cart: every cart operation of the site and of the API on every
\* quantity, and placement.
NextCart ==
    \/ \E i \in Items, q \in AnyQuantities : add_to_cart("alice", i, q) /\ CartBoundedBelow("alice")
    \/ \E q \in AnyQuantities : update_cart("alice", "burger", q)
    \/ \E i \in Items : remove_from_cart("alice", i)
    \/ \E q \in AnyQuantities : CartViewSet_create("alice", "burger", q)
    \/ \E q \in AnyQuantities : CartViewSet_partial_update("alice", "burger", q)
    \/ clear("alice")
    \/ checkout("alice", TRUE)

SpecCart == Init /\ [][NextCart]_vars

\* Access to orders: alice's placements, and cancel and track by every user
\* on every order id.
NextAccess ==
    \/ \E i \in Items, q \in Quantities : add_to_cart("alice", i, q)
    \/ checkout("alice", TRUE)
    \/ \E u \in Users, pk \in OrderIds : cancel(u, pk)
    \/ \E u \in Users, pk \in OrderIds : track(u, pk)

SpecAccess == Init /\ [][NextAccess]_vars

\* What a customer and Stripe can do to the payment of an order: placement
\* on the site and through the API, the order API's writes, cancel, payment
\* intent creation and the webhook.
NextCustomer ==
    \/ add_to_cart("alice", "burger", 1)
    \/ checkout("alice", TRUE)
    \/ perform_create("alice", TRUE)
    \/ \E pk \in OrderIds : partial_update("alice", pk, "confirmed")
    \/ \E pk \in OrderIds, p \in {"paid", "bogus"} :
            partial_update_payment_status("alice", pk, p)
    \/ \E pk \in OrderIds : cancel("alice", pk)
    \/ \E u \in {"alice", "bob"}, order_id \in MetadataOrderIds,
          intent \in PaymentIntentIds \cup {"StripeError"} :
            CreatePaymentIntentView_post(u, order_id, intent)
    \/ \E sig_ok \in BOOLEAN, type \in EventTypes, order_id \in MetadataOrderIds :
            StripeWebhookView_post(TRUE, sig_ok, type, order_id)

SpecCustomer == Init /\ [][NextCustomer]_vars

\* The keys of the RiderLocation rows of the model.
LocationIds == 1 .. MaxSamples

\* The location feed: the location POST and the location viewset by every
\* user, the rider's pings over the socket, and orders placed and deleted.
NextLocation ==
    \/ add_to_cart("alice", "burger", 1)
    \/ checkout("alice", TRUE)
    \/ \E pk \in OrderIds : destroy("alice", pk)
    \/ \E u \in {"alice", "bob"}, position \in {None, "p1"}, order_id \in {None, "1"} :
            UpdateLocationView_post(u, position, order_id, "t1")
    \/ \E u \in {"alice", "bob"}, position \in {None, "p2"}, order_id \in {None, "1"} :
            RiderLocationViewSet_create(u, position, order_id, "t1")
    \/ \E u \in Users, id \in LocationIds, position \in {None, "p2"} :
            RiderLocationViewSet_partial_update(u, id, position)
    \/ \E u \in Users, id \in LocationIds : RiderLocationViewSet_destroy(u, id)
    \/ RiderTrackingConsumer_connect("ch1", "bob", "bob")
    \/ RiderTrackingConsumer_receive("ch1", "location_update", "1", "t1")

SpecLocation == Init /\ [][NextLocation]_vars

\* No request is being handled.
AllIdle == \A r \in Requests : requests[r].pc = "idle"

\* Concurrent placements over one cart: alice fills her cart before any
\* placement starts, then the two workers run checkout for her statement by
\* statement.
NextRace ==
    \/ \E i \in Items, q \in Quantities :
            AllIdle /\ nextOrderId = 1 /\ add_to_cart("alice", i, q)
    \/ \E r \in Requests : checkout_begin(r, "alice")
    \/ \E r \in Requests : checkout_create_order(r)
    \/ \E r \in Requests : checkout_order_item(r)
    \/ \E r \in Requests : checkout_delete_cart(r)

SpecRace == Init /\ [][NextRace]_vars

\* Concurrent writers of one order row: alice places one order, then the
\* webhook, her cancel, her payment intent and the admin's status form on
\* that order, each handled by a worker statement by statement.
NextSave ==
    \/ nextOrderId = 1 /\ add_to_cart("alice", "burger", 1)
    \/ nextOrderId = 1 /\ checkout("alice", TRUE)
    \/ \E r \in Requests : StripeWebhookView_get(r, 1)
    \/ \E r \in Requests : StripeWebhookView_save(r)
    \/ \E r \in Requests : cancel_get(r, "alice", 1)
    \/ \E r \in Requests : cancel_save(r)
    \/ \E r \in Requests : admin_order_detail_get(r, "root", 1, "preparing")
    \/ \E r \in Requests : admin_order_detail_save(r)
    \/ \E r \in Requests, intent \in PaymentIntentIds :
            CreatePaymentIntentView_get(r, "alice", 1, intent)
    \/ \E r \in Requests : CreatePaymentIntentView_save(r)

SpecSave == Init /\ [][NextSave]_vars

(* ------------------- requests cut short by a failure ------------------- *)
\* views.py: checkout, stopped by an exception (a lost connection, a killed
\* worker, an IntegrityError) after its first k writes, 1 <= k < all of them.
\* The writes already made stay: they were committed one by one.
checkout_interrupted(u, k) ==
    /\ DOMAIN cart[u] # {}
    /\ nextOrderId <= MaxOrders
    /\ k \in 1 .. CheckoutWrites(u) - 1
    /\ CheckoutUpTo(u, k)
    /\ response' = Resp(500, "interrupted")
    /\ UNCHANGED rest

\* api_views.py: OrderViewSet.cancel, stopped between order.save() and
\* DeliveryStatus.objects.create(...).
cancel_interrupted(u, pk) ==
    /\ pk \in get_queryset(u)
    /\ can_cancel(orders[pk])
    /\ orders' = [orders EXCEPT ![pk] = CancelOrder(@)]
    /\ response' = Resp(500, "interrupted")
    /\ UNCHANGED <<stock, cart, orderItems, deliveryStatuses, nextOrderId>>
    /\ UNCHANGED rest

\* Most writes a checkout makes in the model.
MaxWrites == 2 * Cardinality(Items) + 2

\* Placement and cancellation, with and without failures; the other status
\* writers are left out of this specification.
NextFault ==
    \/ \E u \in Shoppers, i \in Items, q \in Quantities : add_to_cart(u, i, q)
    \/ \E u \in Shoppers, i \in Items, q \in Quantities : update_cart(u, i, q)
    \/ \E u \in Shoppers, i \in Items : remove_from_cart(u, i)
    \/ \E u \in Shoppers, valid \in BOOLEAN : checkout(u, valid)
    \/ \E u \in Shoppers, valid \in BOOLEAN : perform_create(u, valid)
    \/ \E u \in Users, pk \in OrderIds : cancel(u, pk)
    \/ \E u \in Shoppers, k \in 1 .. MaxWrites : checkout_interrupted(u, k)
    \/ \E u \in Users, pk \in OrderIds : cancel_interrupted(u, pk)

SpecFault == Init /\ [][NextFault]_vars

(* ============================== properties ============================= *)
RECURSIVE SumItems(_)
SumItems(S) ==
    IF S = {} THEN 0
    ELSE LET oi == CHOOSE x \in S : TRUE
         IN  oi.quantity * oi.price + SumItems(S \ {oi})

\* A step that placed an order: a new primary key was handed out and the
\* request was answered with the redirect to the order page (web checkout) or
\* with 201 Created (order API).
PlacementSucceeded ==
    /\ nextOrderId' = nextOrderId + 1
    /\ \/ response' = Resp(302, "order_detail")
       \/ response'.status = 201

\* Quantity of item i in user u's cart, zero when the cart has no such line.
Ordered(u, i) == IF i \in DOMAIN cart[u] THEN cart[u][i] ELSE 0

\* C1: after a successful order placement the new order's grand total is its
\* subtotal plus tax plus delivery fee, its subtotal is the sum of quantity x
\* price over its order items, and the cart of the user who placed it is empty.
C1_PlacementTotals ==
    [][PlacementSucceeded =>
          LET pk == nextOrderId
              o  == orders'[pk]
              its == {oi \in orderItems' : oi.order = pk}
          IN  /\ pk \in DOMAIN orders'
              /\ o.total_price = SumItems(its)
              /\ grand_total(o) = SumItems(its) + o.tax + o.delivery_fee
              /\ cart'[o.user] = EmptyCart]_vars

\* An order with a line for each of the two items was just placed and the
\* cart of its user is empty.
C1_Witness ==
    /\ response = Resp(302, "order_detail")
    /\ \E pk \in DOMAIN orders :
          /\ Cardinality(ItemsOf(pk)) = 2
          /\ orders[pk].total_price = 999 + 299
          /\ orders[pk].tax = 130
          /\ cart[orders[pk].user] = EmptyCart

\* C2: placing an order with an empty cart is rejected with a redirect or a
\* validation error, never a server error, and changes no Order, OrderItem,
\* stock or delivery-status row.
C2_EmptyCartRejected ==
    [][\A u \in Shoppers :
          (cart[u] = EmptyCart /\ (checkout(u, TRUE) \/ perform_create(u, TRUE)))
          => /\ response'.status \in {302, 400}
             /\ UNCHANGED <<orders, orderItems, stock, deliveryStatuses>>]_vars

\* C3: placement and cancellation are all-or-nothing: a request that ends in
\* a failure leaves every table as it was, and no state has an order whose
\* items do not add up to its subtotal or a cancelled order whose log lacks
\* the cancellation entry.
C3_AllOrNothing ==
    /\ [][response'.status = 500 => UNCHANGED db]_vars
    /\ [](\A pk \in DOMAIN orders :
             /\ orders[pk].total_price = SumItems(ItemsOf(pk))
             /\ orders[pk].status = "cancelled"
                  => \E n \in 1 .. Len(LogOf(pk)) : LogOf(pk)[n].status = "cancelled")

\* C4: can_cancel holds exactly in the statuses pending and confirmed; a
\* cancel request on an order the caller can reach succeeds exactly then, and
\* otherwise is answered 400 and changes neither the order nor its log.
C4_CancelOnlyWhenAllowed ==
    [][\A pk \in DOMAIN orders, u \in Users :
          (pk \in get_queryset(u) /\ cancel(u, pk))
          => IF orders[pk].status \in {"pending", "confirmed"}
             THEN /\ can_cancel(orders[pk])
                  /\ response'.status = 200
                  /\ orders'[pk].status = "cancelled"
             ELSE /\ ~can_cancel(orders[pk])
                  /\ response'.status = 400
                  /\ orders' = orders
                  /\ deliveryStatuses' = deliveryStatuses]_vars

\* A cancel request was just refused on an order that is being prepared or
\* is further along.
C4_Witness ==
    /\ response = Resp(400, "Order cannot be cancelled")
    /\ \E pk \in DOMAIN orders :
          orders[pk].status \in {"preparing", "ready", "out_for_delivery", "delivered"}

\* Position of a status in the chain pending -> ... -> delivered.
ChainRank(st) ==
    CASE st = "pending" -> 1
      [] st = "confirmed" -> 2
      [] st = "preparing" -> 3
      [] st = "ready" -> 4
      [] st = "out_for_delivery" -> 5
      [] st = "delivered" -> 6
      [] OTHER -> 0

\* The orders present before and after a step whose status the step changed.
StatusChanged(pk) ==
    /\ pk \in DOMAIN orders
    /\ pk \in DOMAIN orders'
    /\ orders'[pk].status # orders[pk].status

\* C5: every status change moves the order to a later state of the chain or
\* is the cancel transition; delivered and cancelled orders never change
\* status again.
C5_ForwardOnly ==
    [][\A pk \in OrderIds :
          StatusChanged(pk)
          => /\ orders[pk].status \notin {"delivered", "cancelled"}
             /\ \/ orders'[pk].status = "cancelled"
                \/ /\ ChainRank(orders'[pk].status) > 0
                   /\ ChainRank(orders[pk].status) < ChainRank(orders'[pk].status)]_vars

\* C6: whenever an order's status becomes cancelled, it was pending or
\* confirmed immediately before.
C6_CancelledOnlyFromEarly ==
    [][\A pk \in OrderIds :
          (StatusChanged(pk) /\ orders'[pk].status = "cancelled")
          => orders[pk].status \in {"pending", "confirmed"}]_vars

\* C7: every change of an order's status appends exactly one delivery-status
\* entry for that order, carrying the new status.
C7_OneEntryPerChange ==
    [][\A pk \in OrderIds :
          StatusChanged(pk)
          => deliveryStatuses'[pk] =
                Append(deliveryStatuses[pk], [status |-> orders'[pk].status])]_vars

\* The log of order pk after a step; empty when no row of it is left.
LogAfter(pk) ==
    IF pk \in DOMAIN deliveryStatuses' THEN deliveryStatuses'[pk] ELSE <<>>

\* C8: the delivery-status log of an order is append-only under every
\* operation: after any step it extends what it was before the step.
C8_LogAppendOnly ==
    [][\A pk \in DOMAIN deliveryStatuses :
          /\ Len(LogAfter(pk)) >= Len(LogOf(pk))
          /\ SubSeq(LogAfter(pk), 1, Len(LogOf(pk))) = LogOf(pk)]_vars

\* C9: every successfully placed order has status pending and exactly one
\* delivery-status entry, with status pending, right after placement.
C9_InitialPendingEntry ==
    [][PlacementSucceeded =>
          /\ orders'[nextOrderId].status = "pending"
          /\ deliveryStatuses'[nextOrderId] = <<[status |-> "pending"]>>]_vars

\* C10: a successful order placement lowers the stock of each item in the
\* cart by the quantity ordered and leaves every other item's stock as it was.
C10_StockDecrement ==
    [][PlacementSucceeded =>
          \A i \in Items :
             stock'[i] = stock[i] - Ordered(orders'[nextOrderId].user, i)]_vars

\* An order for two burgers and nothing else was just placed: the burger
\* stock is down by two, the cola stock untouched.
C10_Witness ==
    /\ response = Resp(302, "order_detail")
    /\ nextOrderId = 2
    /\ ItemsOf(1) = {[order |-> 1, food_item |-> "burger", quantity |-> 2, price |-> 999]}
    /\ stock = [i \in Items |-> IF i = "burger" THEN InitStock - 2 ELSE InitStock]

\* C11: the order items of a placed order are a snapshot: each is created
\* with the price its item has at the instant of placement, and no later step
\* changes the set of order items of an order that stays, their quantities
\* or prices, or the order's subtotal.
C11_SnapshotImmutable ==
    [][/\ PlacementSucceeded =>
             \A oi \in {x \in orderItems' : x.order = nextOrderId} :
                oi.price = price[oi.food_item]
       /\ \A pk \in DOMAIN orders \cap DOMAIN orders' :
             /\ {x \in orderItems' : x.order = pk} = ItemsOf(pk)
             /\ orders'[pk].total_price = orders[pk].total_price]_vars

\* The frames of type rider_location a client has been sent.
LocationFrames(c) ==
    {inbox[c][k] : k \in {n \in 1 .. Len(inbox[c]) : inbox[c][n].type = "rider_location"}}

\* C12: every rider_location frame delivered to an observer corresponds to a
\* stored RiderLocation sample: the relay persists the sample of a ping in
\* the step that republishes it.
C12_DeliveredLocationsStored ==
    \A c \in Conns : \A f \in LocationFrames(c) :
       \E row \in riderLocations : row.timestamp = f.timestamp

\* The connections that are subscribed through the admin tracking consumer.
AdminSubscribers ==
    {a \in Conns : connections[a].consumer = "admin" /\ connections[a].state = "open"}

\* C13: when the rider consumer handles a location_update tagged with order
\* O, the rider_location_update event of that ping is put on the channel of
\* every connection subscribed to the delivery topic of O and of every
\* connection subscribed through the admin tracking consumer.
C13_PingFansOut ==
    [][\A c \in Conns, ts \in Timestamps, o \in {"1", "2"} :
          RiderTrackingConsumer_receive(c, "location_update", o, ts)
          => /\ \A d \in Members(DeliveryGroup(o)) :
                   /\ Len(channels'[d]) = Len(channels[d]) + 1
                   /\ channels'[d][Len(channels'[d])].type = "rider_location_update"
                   /\ channels'[d][Len(channels'[d])].timestamp = ts
             /\ \A a \in AdminSubscribers :
                   /\ Len(channels'[a]) = Len(channels[a]) + 1
                   /\ channels'[a][Len(channels'[a])].type = "rider_location_update"
                   /\ channels'[a][Len(channels'[a])].timestamp = ts]_vars

\* The groups connection c is a member of.
GroupsOf(c) == {m[1] : m \in {x \in groups : x[2] = c}}

\* C14: a connection of the rider consumer is open, or a member of a group,
\* only if its user is authenticated and is the rider of its topic; only
\* such a connection has a location ping handled.
C14_RiderConnectionAuthorized ==
    /\ [](\A c \in Conns :
             (/\ connections[c].consumer = "rider"
              /\ connections[c].state = "open" \/ GroupsOf(c) # {})
             => /\ connections[c].user # None
                /\ connections[c].user = connections[c].kwarg)
    /\ [][\A c \in Conns, ts \in Timestamps :
             RiderTrackingConsumer_receive(c, "location_update", "1", ts)
             => /\ connections[c].user # None
                /\ connections[c].user = connections[c].kwarg]_vars

\* A logged-in user who is not the rider of the topic was refused: the
\* connection is closed and in no group.
C14_Witness ==
    \E c \in Conns :
       /\ connections[c].consumer = "rider"
       /\ connections[c].user = "root"
       /\ connections[c].kwarg = "bob"
       /\ connections[c].state = "closed"
       /\ GroupsOf(c) = {}

\* C15: a closed connection is a member of no group, and no step puts a
\* message on its channel or sends its client a frame.
C15_ClosedLeavesGroups ==
    /\ [](\A c \in Conns : connections[c].state = "closed" => GroupsOf(c) = {})
    /\ [][\A c \in Conns :
             connections[c].state = "closed"
             => channels'[c] = channels[c] /\ inbox'[c] = inbox[c]]_vars

\* The order page, the admin dashboard and the notification socket were
\* accepted and are closed, the order page having seen the rider's first
\* ping; the rider, still connected, had a second ping for the same order
\* handled, which reached no closed connection.
C15_Witness ==
    /\ \A c \in {"ch2", "ch3", "ch4"} :
          /\ connections[c].state = "closed"
          /\ connections[c].room_group_name # None
          /\ channels[c] = <<>>
    /\ inbox["ch2"] = <<Msg("connection", None, None, None),
                        Msg("rider_location", None, None, "t1")>>
    /\ inbox["ch1"] = <<Msg("location_received", None, None, "t1"),
                        Msg("location_received", None, None, "t2")>>

\* The events that tell an observer of an order its status.
StatusEvents == {"delivery_update", "order_status_change"}

\* C16: every change of an order's status puts an event with the new status
\* on the channel of every connection subscribed to the delivery topic of
\* that order.
C16_StatusChangePublished ==
    [][\A pk \in OrderIds :
          StatusChanged(pk)
          => \A c \in Members(DeliveryGroup(ToString(pk))) :
                /\ Len(channels'[c]) = Len(channels[c]) + 1
                /\ channels'[c][Len(channels'[c])].type \in StatusEvents
                /\ channels'[c][Len(channels'[c])].status = orders'[pk].status]_vars

\* The statuses of a sequence of messages.
StatusesOf(messages) == [k \in 1 .. Len(messages) |-> messages[k].status]

\* The statuses an observer is told, in the order it is told them: those of
\* the status frames it was sent, then those of the status events that wait
\* on its channel.
StatusStream(frames, events) ==
    StatusesOf(SelectSeq(frames, LAMBDA f : f.type \in {"delivery_update", "order_status"}))
    \o StatusesOf(SelectSeq(events, LAMBDA ev : ev.type \in StatusEvents))

\* C17: a connection that stays subscribed to the delivery topic of an order
\* is told the order's status updates in the order they are issued: each
\* update adds its status at the end of what the connection is told, and no
\* other step, a publish on another topic included, adds to or reorders it.
C17_StatusUpdatesInOrder ==
    [][\A c \in Conns :
          (/\ connections[c].consumer = "delivery"
           /\ connections[c].state = "open"
           /\ connections'[c].state = "open")
          => StatusStream(inbox'[c], channels'[c]) =
                IF \E pk \in OrderIds :
                      ToString(pk) = connections[c].kwarg /\ StatusChanged(pk)
                THEN Append(StatusStream(inbox[c], channels[c]),
                            orders'[CHOOSE pk \in OrderIds :
                                       ToString(pk) = connections[c].kwarg].status)
                ELSE StatusStream(inbox[c], channels[c])]_vars

\* C18: the sentiment stored with a feedback is positive when more keywords
\* of the positive list than of the negative list occur in the lower-cased
\* text, negative when more of the negative list occur, and neutral on a
\* tie; it is a function of the text alone.
C18_SentimentByKeywordCount ==
    /\ \A f \in feedbacks :
          LET p == CountIn(positive_words, lower(f.feedback_text))
              n == CountIn(negative_words, lower(f.feedback_text))
          IN  /\ p > n => f.sentiment = "positive"
              /\ n > p => f.sentiment = "negative"
              /\ p = n => f.sentiment = "neutral"
    /\ \A f, g \in feedbacks :
          f.feedback_text = g.feedback_text => f.sentiment = g.sentiment

\* The stored feedback "Amazing AWFUL", one keyword of each list in mixed
\* and upper case, is neutral.
C18_Witness ==
    \E f \in feedbacks :
       /\ f.feedback_text = <<"A", "m", "a", "z", "i", "n", "g", " ", "A", "W", "F", "U", "L">>
       /\ f.sentiment = "neutral"

\* C19: a webhook request whose signature is invalid or whose payload is
\* malformed is answered with a rejection status and changes no order,
\* whatever event type and order id it carries.
C19_BadWebhookRejected ==
    [][\A payload_ok \in BOOLEAN, sig_ok \in BOOLEAN, type \in EventTypes,
         order_id \in MetadataOrderIds :
          (~(payload_ok /\ sig_ok)
           /\ StripeWebhookView_post(payload_ok, sig_ok, type, order_id))
          => /\ response'.status = 400
             /\ orders' = orders]_vars

\* A webhook request with an invalid signature was just refused while an
\* unpaid order exists.
C19_Witness ==
    /\ response = Resp(400, "Invalid signature")
    /\ \E pk \in DOMAIN orders : orders[pk].payment_status = "pending"

C21_VerifiedWebhookAcknowledged ==
    [][\A type \in EventTypes, order_id \in MetadataOrderIds :
          StripeWebhookView_post(TRUE, TRUE, type, order_id)
          => /\ response'.status = 200
             /\ (\A pk \in DOMAIN orders : ToString(pk) # order_id) => orders' = orders]_vars

\* C30: for every order whose status log is not empty, the status of the
\* newest log entry is the current status of the order.
C30_NewestLogEntryIsStatus ==
    \A pk \in DOMAIN orders :
       Len(LogOf(pk)) > 0 => LogOf(pk)[Len(LogOf(pk))].status = orders[pk].status

\* C23: the stock of every food item is non-negative in every reachable
\* state, whatever cart additions and placements were made.
C23_StockNonNegative ==
    \A i \in DOMAIN stock : stock[i] >= 0

\* C22: after any cart operations with any requested quantities every cart
\* line has a quantity of at least 1 (a user's cart holds one line per item
\* by the shape of cart); a first add of an item creates the line with the
\* requested quantity and a repeated add increments it.
C22_CartLinesWellFormed ==
    /\ [](\A u \in Users : \A i \in DOMAIN cart[u] : cart[u][i] >= 1)
    /\ [][\A i \in Items, q \in AnyQuantities :
             add_to_cart("alice", i, q) /\ i \in DOMAIN price
             => cart'["alice"][i] = IF i \in DOMAIN cart["alice"]
                                    THEN cart["alice"][i] + q ELSE q]_vars

\* C25: a user who is not an administrator reaches only their own orders
\* through cancel and track: either request on an order of another user is
\* answered not-found and leaves every order and every status log unchanged.
C25_OnlyOwnOrders ==
    [][\A u \in Users, pk \in DOMAIN orders :
          /\ ~is_admin_user(u)
          /\ orders[pk].user # u
          /\ cancel(u, pk) \/ track(u, pk)
          => /\ response'.status = 404
             /\ orders' = orders
             /\ deliveryStatuses' = deliveryStatuses]_vars

\* A request on an order of alice was just answered not-found while every
\* order is still pending and unlogged: the requests of SpecAccess that are
\* answered 404 are cancel and track on orders the caller does not reach.
C25_Witness ==
    /\ response = Resp(404, "")
    /\ DOMAIN orders = OrderIds
    /\ \A pk \in DOMAIN orders :
          /\ orders[pk].user = "alice"
          /\ orders[pk].status = "pending"
          /\ LogOf(pk) = <<>>

\* C28: the payment_status of an order leaves pending only through a webhook
\* request whose signature verifies; no operation of a customer (order
\* creation, a write through the order API, cancel, payment intent creation)
\* changes it.
C28_PaidOnlyByWebhook ==
    [][\A pk \in DOMAIN orders :
          /\ pk \in DOMAIN orders'
          /\ orders[pk].payment_status = "pending"
          /\ orders'[pk].payment_status # "pending"
          => \E type \in EventTypes, order_id \in MetadataOrderIds :
                StripeWebhookView_post(TRUE, TRUE, type, order_id)]_vars

\* C24: the rider location feed is append-only under every operation: no
\* step modifies or removes an existing sample, and every sample a step adds
\* has a user of the rider role as its rider.
C24_LocationFeedAppendOnly ==
    [][/\ riderLocations \subseteq riderLocations'
       /\ \A row \in riderLocations' \ riderLocations : is_rider(row.rider)]_vars

\* The samples of rider u.
LocationsOf(u) == {row \in riderLocations : row.rider = u}

\* The most recent sample of rider u, who has one.
LatestLocation(u) ==
    CHOOSE row \in LocationsOf(u) : \A other \in LocationsOf(u) : other.id <= row.id

\* C27: whenever a rider with a profile has a sample, the position cached on
\* the profile is the position of the rider's most recent sample.
C27_CachedLocationIsLatest ==
    \A u \in DOMAIN riderProfiles :
       LocationsOf(u) # {} => riderProfiles[u] = LatestLocation(u).position

\* C26: when two placement requests of one user run concurrently over the
\* same cart, in every interleaving each cart line becomes order items of at
\* most one order and the stock of its item is lowered at most once, by the
\* quantity of the line.
C26_EachLinePlacedOnce ==
    \A i \in Items :
       LET placed == {oi \in orderItems : oi.food_item = i}
       IN  /\ Cardinality({oi.order : oi \in placed}) <= 1
           /\ \A oi \in placed : stock[i] >= InitStock - oi.quantity
           /\ placed = {} => stock[i] = InitStock

\* The column of Order a view assigns before it saves.
AssignedField(view) ==
    CASE view = "StripeWebhookView" -> "payment_status"
      [] view = "CreatePaymentIntentView" -> "stripe_payment_intent_id"
      [] OTHER -> "status"

\* C29: no update of an order is lost, in any interleaving of the read and
\* save steps of the webhook or payment intent creation with those of cancel
\* or the admin's status update: the save of a request changes no column of
\* any order but the one its view assigns.
C29_NoLostUpdate ==
    [][\A r \in Requests :
          requests[r].pc = "save" /\ requests'[r].pc = "idle"
          => \A pk \in DOMAIN orders : \A f \in DOMAIN orders[pk] :
                f # AssignedField(requests[r].view) => orders'[pk][f] = orders[pk][f]]_vars

====
